---------------------------- MODULE Spec2Model ----------------------------
(***************************************************************************)
(* Arithmetic over the Mersenne field GF(2^127 - 1) and its quadratic      *)
(* extension: the serial (u128) implementation of src/src/serial.rs and    *)
(* src/src/serial/ext_field.rs, and the four-lane radix-2^43 IFMA          *)
(* implementation of src/src/vector/prime_field.rs and                     *)
(* src/src/vector/ext_field.rs.                                            *)
(*                                                                         *)
(* TLC's integers are 32 bits wide, so every machine integer of the        *)
(* program (u64, u128, a u64x4 lane) is a natural number written as the    *)
(* sequence of its base-2^13 digits, least significant first, without      *)
(* leading zero digits (zero is << >>).  All widths are those of the       *)
(* program: 128-bit values wrap or overflow at 2^128, lanes at 2^64.       *)
(***************************************************************************)
EXTENDS Integers, Sequences, FiniteSets, TLC

(***************************************************************************)
(* Multi-digit naturals.                                                   *)
(***************************************************************************)
DigitBits == 13
Base == 2 ^ DigitBits

Pow2Small(k) == 2 ^ k

Max2(a, b) == IF a >= b THEN a ELSE b
Min2(a, b) == IF a <= b THEN a ELSE b

\* Digit i (from 1) of a, zero beyond its length.
Dig(a, i) == IF i >= 1 /\ i <= Len(a) THEN a[i] ELSE 0

RECURSIVE TrimLen(_, _)
TrimLen(s, n) == IF n = 0 THEN 0 ELSE IF s[n] # 0 THEN n ELSE TrimLen(s, n - 1)

\* Drop the leading zero digits.
Trim(s) == SubSeq(s, 1, TrimLen(s, Len(s)))

RECURSIVE Carry(_, _, _)
\* Propagate carries through digits that may exceed the base.
Carry(s, i, c) ==
    IF i > Len(s)
    THEN IF c = 0 THEN << >> ELSE << c % Base >> \o Carry(s, i, c \div Base)
    ELSE << (s[i] + c) % Base >> \o Carry(s, i + 1, (s[i] + c) \div Base)

Norm(s) == Trim(Carry(s, 1, 0))

Zero == << >>
\* The number n, for n below the base.
Small(n) == IF n = 0 THEN << >> ELSE << n >>
One == << 1 >>

BAdd(a, b) == Norm([i \in 1..Max2(Len(a), Len(b)) |-> Dig(a, i) + Dig(b, i)])

RECURSIVE CmpFrom(_, _, _)
\* -1, 0, 1 as a < b, a = b, a > b, comparing digits i, i-1, ..., 1.
CmpFrom(a, b, i) ==
    IF i = 0 THEN 0
    ELSE IF Dig(a, i) < Dig(b, i) THEN -1
    ELSE IF Dig(a, i) > Dig(b, i) THEN 1
    ELSE CmpFrom(a, b, i - 1)

BCmp(a, b) == CmpFrom(a, b, Max2(Len(a), Len(b)))
BLt(a, b) == BCmp(a, b) = -1
BLe(a, b) == BCmp(a, b) # 1

\* a - b for a >= b: a + (Base^n - 1 - b) + 1, less Base^n.
BSub(a, b) ==
    LET n == Len(a)
        s == Carry([i \in 1..n |-> a[i] + (Base - 1) - Dig(b, i)
                                   + (IF i = 1 THEN 1 ELSE 0)], 1, 0)
    IN  Trim(SubSeq(s, 1, n))

RECURSIVE Column(_, _, _, _)
\* The sum of a[i] * b[k + 1 - i] over i = lo..hi.
Column(a, b, k, i) ==
    IF i = 0 THEN 0
    ELSE Column(a, b, k, i - 1) + a[i] * Dig(b, k + 1 - i)

BMul(a, b) ==
    IF Len(a) = 0 \/ Len(b) = 0 THEN Zero
    ELSE Norm([k \in 1..(Len(a) + Len(b) - 1) |-> Column(a, b, k, Min2(k, Len(a)))])

\* a div 2^k
BShr(a, k) ==
    LET q == k \div DigitBits
        r == k % DigitBits
        lo == Pow2Small(r)
        hi == Pow2Small(DigitBits - r)
    IN  IF Len(a) <= q THEN Zero
        ELSE Trim([i \in 1..(Len(a) - q) |->
                     (a[i + q] \div lo) + (Dig(a, i + q + 1) % lo) * hi])

\* a mod 2^k
BLow(a, k) ==
    LET q == k \div DigitBits
        r == k % DigitBits
    IN  IF Len(a) <= q THEN a
        ELSE Trim([i \in 1..(q + 1) |->
                     IF i <= q THEN a[i] ELSE a[i] % Pow2Small(r)])

\* a * 2^k
BShl(a, k) ==
    LET q == k \div DigitBits
        r == k % DigitBits
    IN  IF Len(a) = 0 THEN Zero
        ELSE Norm([i \in 1..(Len(a) + q) |->
                     IF i <= q THEN 0 ELSE a[i - q] * Pow2Small(r)])

\* 2^k
Pow2(k) ==
    SubSeq([i \in 1..(k \div DigitBits + 1) |->
              IF i <= k \div DigitBits THEN 0 ELSE Pow2Small(k % DigitBits)],
           1, k \div DigitBits + 1)

\* 2^k - 1, for k > 0: k one bits.
Ones(k) ==
    SubSeq([i \in 1..((k + DigitBits - 1) \div DigitBits) |->
              IF i <= k \div DigitBits THEN Base - 1
              ELSE Pow2Small(k % DigitBits) - 1],
           1, (k + DigitBits - 1) \div DigitBits)

RECURSIVE DigitAnd(_, _)
DigitAnd(u, v) ==
    IF u = 0 \/ v = 0 THEN 0
    ELSE (u % 2) * (v % 2) + 2 * DigitAnd(u \div 2, v \div 2)

\* Bitwise and, bitwise or.
BAnd(a, b) == Trim([i \in 1..Min2(Len(a), Len(b)) |-> DigitAnd(a[i], b[i])])
BOr(a, b) ==
    Trim([i \in 1..Max2(Len(a), Len(b)) |->
            Dig(a, i) + Dig(b, i) - DigitAnd(Dig(a, i), Dig(b, i))])

\* The number of bits of a (0 for zero).
RECURSIVE SmallBits(_)
SmallBits(u) == IF u = 0 THEN 0 ELSE 1 + SmallBits(u \div 2)
BitLen(a) == IF Len(a) = 0 THEN 0 ELSE (Len(a) - 1) * DigitBits + SmallBits(a[Len(a)])

RECURSIVE ReduceBits(_, _, _)
\* a less m * 2^j for each j = k, k-1, ..., 0 with m * 2^j <= a.
ReduceBits(a, m, k) ==
    IF BLe(BShl(m, k), a)
    THEN (IF k = 0 THEN BSub(a, m) ELSE ReduceBits(BSub(a, BShl(m, k)), m, k - 1))
    ELSE (IF k = 0 THEN a ELSE ReduceBits(a, m, k - 1))

RECURSIVE ModFrom(_, _, _, _)
\* Long division, one digit of a at a time from the top: r is the remainder
\* of the digits above digit i.
ModFrom(a, m, i, r) ==
    IF i = 0 \/ ~BLt(r, m) THEN r
    ELSE ModFrom(a, m, i - 1,
                 ReduceBits(Trim(<< a[i] >> \o r), m, DigitBits))

\* a mod m, for m > 0.
BMod(a, m) == ModFrom(a, m, Len(a), Zero)

\* 1000 * a + d
MulAdd1000(a, d) ==
    Norm([i \in 1..(Len(a) + 1) |-> Dig(a, i) * 1000 + (IF i = 1 THEN d ELSE 0)])

RECURSIVE DecFrom(_, _, _)
DecFrom(d, i, a) ==
    IF i > Len(d) \/ Len(a) > Len(d) THEN a
    ELSE DecFrom(d, i + 1, MulAdd1000(a, d[i]))

\* The natural number whose decimal numeral, cut into groups of three digits
\* from the right, is d: Dec(<<12, 345, 678>>) is 12,345,678.
Dec(d) == DecFrom(d, 1, Zero)

(***************************************************************************)
(* Machine integers.  A checked operation (+, -, * on u64 and u128) panics *)
(* in a debug build and wraps in a release build: its model is the wrapped *)
(* value, and a separate predicate says whether it overflowed.             *)
(***************************************************************************)
U64Bits == 64
U128Bits == 128

\* The value of a natural number a stored in a w-bit integer.
Wrap(a, w) == BLow(a, w)
Fits(a, w) == BitLen(a) <= w

\* a is a value of type u128, of type u64.
IsU128(a) == Fits(a, U128Bits)
IsU64(a) == Fits(a, U64Bits)

\* x.wrapping_sub(y) and x.wrapping_add(y) on u128.
TwoTo128 == Pow2(U128Bits)
wrapping_sub(a, b) ==
    IF BLe(b, a) THEN BSub(a, b) ELSE BSub(BAdd(a, TwoTo128), b)
wrapping_add(a, b) == Wrap(BAdd(a, b), U128Bits)

(***************************************************************************)
(* src/src/serial.rs: the prime field.  A field element F127(v) is its     *)
(* inner u128 v.  Each operation yields [v |-> the result's inner value,   *)
(* ok |-> no checked operation overflowed and no debug assertion failed].  *)
(***************************************************************************)
\* const P: u128 = (1 << 127) - 1
P == Ones(127)
TwoP == BMul(Small(2), P)

\* F127::from without the conditional subtraction of P.
F127_from_unreduced(xx) ==
    CASE IsU128(xx) -> [v |-> xx, ok |-> BLt(xx, TwoP)]

\* impl From<u128> for F127
F127_from(xx) ==
    LET yy        == wrapping_sub(xx, P)
        sign_mask == wrapping_sub(Zero, BShr(yy, 127))
        x_red     == wrapping_add(yy, BAnd(sign_mask, P))
    IN  CASE IsU128(xx) ->
             [v |-> x_red, ok |-> BLt(xx, TwoP)]

\* impl Into<u128> for F127
F127_into(v) == v

\* F127 addition that drops the carry out of bit 127 instead of adding it.
F127_add_unfolded(xx, yy) ==
    LET zz == BAdd(xx, yy)
        zw == Wrap(zz, U128Bits)
    IN  CASE IsU128(xx) /\ IsU128(yy) ->
             [v |-> BAnd(zw, P), ok |-> Fits(zz, U128Bits)]

\* impl Add<F127> for F127
F127_add(xx, yy) ==
    LET zz == BAdd(xx, yy)
        zw == Wrap(zz, U128Bits)
        z0 == BAnd(zw, P)
        z1 == BShr(zw, 127)
        r  == BAdd(z0, z1)
    IN  CASE IsU128(xx) /\ IsU128(yy) ->
             [v |-> Wrap(r, U128Bits),
              ok |-> Fits(zz, U128Bits) /\ Fits(r, U128Bits)]

\* F127 subtraction that adds the borrow out of bit 127 instead of
\* subtracting it.
F127_sub_plus(xx, yy) ==
    LET zz == wrapping_sub(xx, yy)
        z0 == BAnd(zz, P)
        z1 == BShr(zz, 127)
    IN  CASE IsU128(xx) /\ IsU128(yy) ->
             [v |-> wrapping_add(z0, z1), ok |-> BLe(z1, z0)]

\* impl Sub<F127> for F127
F127_sub(xx, yy) ==
    LET zz == wrapping_sub(xx, yy)
        z0 == BAnd(zz, P)
        z1 == BShr(zz, 127)
    IN  CASE IsU128(xx) /\ IsU128(yy) ->
             [v |-> wrapping_sub(z0, z1), ok |-> BLe(z1, z0)]

\* F127 negation as the two's complement 0 - x.
F127_neg_wrapping(xx) ==
    CASE IsU128(xx) -> [v |-> wrapping_sub(Zero, xx), ok |-> BLe(xx, P)]

\* impl Neg for F127
F127_neg(xx) ==
    CASE IsU128(xx) -> [v |-> wrapping_sub(P, xx), ok |-> BLe(xx, P)]

\* The product of two u64 values without the widening to u128.
m_truncated(a, b) == Wrap(BMul(a, b), U64Bits)

\* let m = |x: u64, y: u64| (x as u128) * (y as u128)
m(a, b) == BMul(a, b)

\* const MASK63: u64 = (1u64 << 63) - 1
MASK63 == Ones(63)

\* impl Mul<F127> for F127
F127_mul(xx, yy) ==
    LET x0  == Wrap(xx, U64Bits)
        x1  == Wrap(BShr(xx, 64), U64Bits)
        y0  == Wrap(yy, U64Bits)
        y1  == Wrap(BShr(yy, 64), U64Bits)
        z0  == m(x0, y0)
        s1  == BAdd(m(x1, y0), m(x0, y1))
        t1  == BAdd(Wrap(s1, U128Bits), BShr(z0, 64))
        z1  == Wrap(t1, U128Bits)
        y2  == BMul(Small(2), y1)
        t2  == BAdd(m(x1, Wrap(y2, U64Bits)), BShr(z1, 63))
        z2  == Wrap(t2, U128Bits)
        w0  == BOr(Wrap(z0, U64Bits),
                   Wrap(BShl(BAnd(Wrap(z1, U64Bits), MASK63), 64), U128Bits))
        w1  == z2
        tw  == BAdd(w0, w1)
        w   == Wrap(tw, U128Bits)
        r   == BAdd(BAnd(w, P), BShr(w, 127))
    IN  CASE IsU128(xx) /\ IsU128(yy) ->
             [v |-> Wrap(r, U128Bits),
              ok |-> /\ Fits(s1, U128Bits) /\ Fits(t1, U128Bits)
                    /\ Fits(y2, U64Bits) /\ Fits(t2, U128Bits)
                    /\ Fits(tw, U128Bits) /\ Fits(r, U128Bits)]

(***************************************************************************)
(* src/src/serial/ext_field.rs: the extension field.  ExtF127(a, b) is the *)
(* pair << a, b >> of inner values, for a + b i.                           *)
(***************************************************************************)
\* impl From<(u128, u128)> for ExtF127
ExtF127_from(xx) ==
    [v |-> << F127_from(xx[1]).v, F127_from(xx[2]).v >>,
     ok |-> F127_from(xx[1]).ok /\ F127_from(xx[2]).ok]

\* impl Into<(u128, u128)> for ExtF127
ExtF127_into(xx) == << F127_into(xx[1]), F127_into(xx[2]) >>

\* impl Add<ExtF127> for ExtF127
ExtF127_add(xx, yy) ==
    [v |-> << F127_add(xx[1], yy[1]).v, F127_add(xx[2], yy[2]).v >>,
     ok |-> F127_add(xx[1], yy[1]).ok /\ F127_add(xx[2], yy[2]).ok]

\* impl Sub<ExtF127> for ExtF127
ExtF127_sub(xx, yy) ==
    [v |-> << F127_sub(xx[1], yy[1]).v, F127_sub(xx[2], yy[2]).v >>,
     ok |-> F127_sub(xx[1], yy[1]).ok /\ F127_sub(xx[2], yy[2]).ok]

\* The result with (a - b) * (c - d) for (b - a) * (c - d).
ExtF127_mul_result_swapped(xx, yy, pac, pbd) ==
    LET re == F127_sub(pac, pbd)
        ab == F127_sub(xx[1], xx[2])
        cd == F127_sub(yy[1], yy[2])
        pr == F127_mul(ab.v, cd.v)
        s1 == F127_add(pr.v, pac)
        im == F127_add(s1.v, pbd)
    IN  [v |-> << re.v, im.v >>,
         ok |-> re.ok /\ ab.ok /\ cd.ok /\ pr.ok /\ s1.ok /\ im.ok]

\* ExtF127(ac - bd, (b - a) * (c - d) + ac + bd), for ac = a * c, bd = b * d
ExtF127_mul_result(xx, yy, pac, pbd) ==
    LET re == F127_sub(pac, pbd)
        ba == F127_sub(xx[2], xx[1])
        cd == F127_sub(yy[1], yy[2])
        pr == F127_mul(ba.v, cd.v)
        s1 == F127_add(pr.v, pac)
        im == F127_add(s1.v, pbd)
    IN  [v |-> << re.v, im.v >>,
         ok |-> re.ok /\ ba.ok /\ cd.ok /\ pr.ok /\ s1.ok /\ im.ok]

\* impl Mul<ExtF127> for ExtF127
ExtF127_mul(xx, yy) ==
    LET pac == F127_mul(xx[1], yy[1])
        pbd == F127_mul(xx[2], yy[2])
        r   == ExtF127_mul_result(xx, yy, pac.v, pbd.v)
    IN  [v |-> r.v, ok |-> pac.ok /\ pbd.ok /\ r.ok]

(***************************************************************************)
(* src/src/ifma.rs and src/src/vector/prime_field.rs: four field elements  *)
(* at a time.  A u64x4 is a function from the lanes to u64 values; its     *)
(* arithmetic wraps in each lane.  F127x4(l0, l1, l2) is the triple        *)
(* << l0, l1, l2 >> of u64x4: the limbs of weight 2^0, 2^43 and 2^86.      *)
(***************************************************************************)
Lanes == 1..4

\* The tuple (f[1], f[2], f[3], f[4]) of the four lanes of f, as u64x4::new
\* builds it.
Lanewise(f) == << f[1], f[2], f[3], f[4] >>

\* The element of a one-element set.  A value bound by { e : w \in { val } }
\* is computed once, however often e uses it.
Only(S) == CHOOSE r \in S : TRUE

\* u64x4::splat(a)
splat(a) == [k \in Lanes |-> a]

\* x + y, x - y, x & y, x >> s and x << s on u64x4
LaneAdd(a, b) == Lanewise([k \in Lanes |-> Wrap(BAdd(a[k], b[k]), U64Bits)])
LaneSub(a, b) ==
    Lanewise([k \in Lanes |-> Wrap(BSub(BAdd(a[k], Pow2(U64Bits)), b[k]), U64Bits)])
LaneAnd(a, b) == Lanewise([k \in Lanes |-> BAnd(a[k], b[k])])
LaneShr(a, s) == Lanewise([k \in Lanes |-> BShr(a[k], s)])
LaneShl(a, s) == Lanewise([k \in Lanes |-> Wrap(BShl(a[k], s), U64Bits)])

\* A multiply-add that takes the high half of the product from bit 51 on.
madd52hi_from_bit_51(zz, xx, yy) ==
    Lanewise([k \in Lanes |->
        Wrap(BAdd(zz[k], BShr(BMul(BLow(xx[k], 52), BLow(yy[k], 52)), 51)),
             U64Bits)])

\* A multiply-add that adds the low 64 bits of the product, not its low 52.
madd52lo_low64(zz, xx, yy) ==
    Lanewise([k \in Lanes |->
        Wrap(BAdd(zz[k], BLow(BMul(BLow(xx[k], 52), BLow(yy[k], 52)), U64Bits)),
             U64Bits)])

\* vpmadd52luq and vpmadd52huq: the low and the high 52 bits of the 104-bit
\* product of the low 52 bits of x and of y, added to z.
madd52lo(zz, xx, yy) ==
    Lanewise([k \in Lanes |->
        Wrap(BAdd(zz[k], BLow(BMul(BLow(xx[k], 52), BLow(yy[k], 52)), 52)),
             U64Bits)])
madd52hi(zz, xx, yy) ==
    Lanewise([k \in Lanes |->
        Wrap(BAdd(zz[k], BShr(BMul(BLow(xx[k], 52), BLow(yy[k], 52)), 52)),
             U64Bits)])

\* A packing whose top limb starts at bit 85.
F127x4_from_bit_85(xx) ==
    LET low_43_bits == Ones(43)
    IN  << Lanewise([k \in Lanes |-> Wrap(BAnd(xx[k], low_43_bits), U64Bits)]),
           Lanewise([k \in Lanes |-> Wrap(BAnd(BShr(xx[k], 43), low_43_bits), U64Bits)]),
           Lanewise([k \in Lanes |-> Wrap(BAnd(BShr(xx[k], 85), low_43_bits), U64Bits)]) >>

\* impl From<(F127, F127, F127, F127)> for F127x4
F127x4_from(xx) ==
    LET low_43_bits == Ones(43)
    IN  << Lanewise([k \in Lanes |-> Wrap(BAnd(xx[k], low_43_bits), U64Bits)]),
           Lanewise([k \in Lanes |-> Wrap(BAnd(BShr(xx[k], 43), low_43_bits), U64Bits)]),
           Lanewise([k \in Lanes |-> Wrap(BAnd(BShr(xx[k], 86), low_43_bits), U64Bits)]) >>

\* The conversion without the reduction pass from the third limb to the first.
F127x4_into_unreduced(self) ==
    LET sum == Lanewise([k \in Lanes |->
                   BAdd(BAdd(self[1][k], BShl(self[2][k], 43)),
                        BShl(self[3][k], 86))])
        r   == Lanewise([k \in Lanes |-> F127_from(Wrap(sum[k], U128Bits))])
    IN  [v  |-> Lanewise([k \in Lanes |-> r[k].v]),
         ok |-> \A k \in Lanes : Fits(sum[k], U128Bits) /\ r[k].ok]

\* impl Into<(F127, F127, F127, F127)> for F127x4
F127x4_into(self) ==
    LET mask      == splat(Ones(41))
        c(s)      == LaneShr(s[3], 41)
        self0(s)  == LaneAdd(s[1], c(s))
        self2(s)  == LaneAnd(s[3], mask)
        sum(s)    == Only({ Lanewise([k \in Lanes |->
                               BAdd(BAdd(s0[k], BShl(s[2][k], 43)),
                                    BShl(s2[k], 86))]) :
                            s0 \in { self0(s) }, s2 \in { self2(s) } })
        r(t)      == Lanewise([k \in Lanes |->
                         F127_from(Wrap(t[k], U128Bits))])
    IN  Only({ Only({ Only({ [v  |-> Lanewise([k \in Lanes |-> rr[k].v]),
                              ok |-> \A k \in Lanes :
                                        Fits(t[k], U128Bits) /\ rr[k].ok] :
                             rr \in { r(t) } }) :
                      t \in { sum(s) } }) :
               s \in { self } })

\* No lane of the u64x4 difference x - y wraps around 0.
NoWrapSub(a, b) == \A k \in Lanes : BLe(b[k], a[k])

\* The negation with the constant of the first two limbs for the third too.
F127x4_neg_same_constant(self) ==
    LET c01 == splat(BShl(Ones(43), 3))
    IN  [v  |-> << LaneSub(c01, self[1]),
                   LaneSub(c01, self[2]),
                   LaneSub(c01, self[3]) >>,
         ok |-> /\ NoWrapSub(c01, self[1]) /\ NoWrapSub(c01, self[2])
                /\ NoWrapSub(c01, self[3])]

\* impl Neg for F127x4
F127x4_neg(self) ==
    LET c01 == splat(BShl(Ones(43), 3))
        c2  == splat(BShl(Ones(41), 3))
    IN  Only({ [v  |-> << LaneSub(c01, s[1]),
                          LaneSub(c01, s[2]),
                          LaneSub(c2, s[3]) >>,
                ok |-> /\ NoWrapSub(c01, s[1]) /\ NoWrapSub(c01, s[2])
                       /\ NoWrapSub(c2, s[3])] : s \in { self } })

\* No lane of the u64x4 sum x + y, of the shift x << s, of a multiply-add
\* wraps around 2^64.
NoWrapAdd(a, b) == \A k \in Lanes : Fits(BAdd(a[k], b[k]), U64Bits)
NoWrapShl(a, s) == \A k \in Lanes : Fits(BShl(a[k], s), U64Bits)
NoWrapMadd(r, zz) == \A k \in Lanes : BLe(zz[k], r[k])

\* impl Add<F127x4> for F127x4
F127x4_add(self, other) ==
    Only({ [v  |-> << LaneAdd(s[1], o[1]),
                      LaneAdd(s[2], o[2]),
                      LaneAdd(s[3], o[3]) >>,
            ok |-> /\ NoWrapAdd(s[1], o[1]) /\ NoWrapAdd(s[2], o[2])
                   /\ NoWrapAdd(s[3], o[3])] :
           s \in { self }, o \in { other } })

\* impl Mul<F127x4> for F127x4, up to the sums z0, z1, z2.  The accumulators
\* z0_a .. z2_c are written three times; the suffix counts the writes.
F127x4_mul_sums(self, other) ==
    LET x0 == self[1]
        y0 == other[1]
        x1 == self[2]
        y1 == other[2]
        x2 == self[3]
        y2 == other[3]
        zero == splat(Zero)
        z0_a1 == madd52hi(zero, x2, y0)
        z0_b1 == madd52lo(zero, x2, y1)
        z0_c1 == madd52hi(zero, x1, y1)
        z1_a1 == madd52hi(zero, x0, y0)
        z1_b1 == madd52hi(zero, x2, y1)
        z1_c1 == madd52lo(zero, x1, y0)
        z2_a1 == madd52hi(zero, x2, y2)
        z2_b1 == madd52hi(zero, x0, y1)
        z2_c1 == madd52lo(zero, x2, y0)
        z0_a2 == LaneShl(z0_a1, 11)
        z1_a2 == LaneShl(z1_a1, 7)
        z2_a2 == LaneShl(z2_a1, 11)
        z0_a == madd52lo(z0_a2, x0, y0)
        z0_b == madd52lo(z0_b1, x1, y2)
        z0_c == madd52hi(z0_c1, x0, y2)
        z1_a == madd52lo(z1_a2, x2, y2)
        z1_b == madd52hi(z1_b1, x1, y2)
        z1_c == madd52lo(z1_c1, x0, y1)
        z2_a == madd52lo(z2_a2, x0, y2)
        z2_b == madd52hi(z2_b1, x1, y0)
        z2_c == madd52lo(z2_c1, x1, y1)
        z0 == LaneAdd(LaneAdd(z0_a, LaneShl(z0_b, 2)), LaneShl(z0_c, 11))
        z1 == LaneAdd(LaneAdd(LaneShl(z1_a, 2), LaneShl(z1_b, 11)), z1_c)
        z2 == LaneAdd(LaneAdd(z2_a, LaneShl(z2_b, 9)), z2_c)
    IN  [v  |-> << z0, z1, z2 >>,
         ok |-> /\ NoWrapShl(z0_a1, 11) /\ NoWrapShl(z1_a1, 7)
                /\ NoWrapShl(z2_a1, 11)
                /\ NoWrapMadd(z0_a, z0_a2) /\ NoWrapMadd(z0_b, z0_b1)
                /\ NoWrapMadd(z0_c, z0_c1) /\ NoWrapMadd(z1_a, z1_a2)
                /\ NoWrapMadd(z1_b, z1_b1) /\ NoWrapMadd(z1_c, z1_c1)
                /\ NoWrapMadd(z2_a, z2_a2) /\ NoWrapMadd(z2_b, z2_b1)
                /\ NoWrapMadd(z2_c, z2_c1)
                /\ NoWrapShl(z0_b, 2) /\ NoWrapShl(z0_c, 11)
                /\ NoWrapAdd(z0_a, LaneShl(z0_b, 2))
                /\ NoWrapAdd(LaneAdd(z0_a, LaneShl(z0_b, 2)), LaneShl(z0_c, 11))
                /\ NoWrapShl(z1_a, 2) /\ NoWrapShl(z1_b, 11)
                /\ NoWrapAdd(LaneShl(z1_a, 2), LaneShl(z1_b, 11))
                /\ NoWrapAdd(LaneAdd(LaneShl(z1_a, 2), LaneShl(z1_b, 11)), z1_c)
                /\ NoWrapShl(z2_b, 9)
                /\ NoWrapAdd(z2_a, LaneShl(z2_b, 9))
                /\ NoWrapAdd(LaneAdd(z2_a, LaneShl(z2_b, 9)), z2_c)]

\* The carry step without the masks: the carries are added to limbs that
\* keep their own high bits.
F127x4_mul_carry_unmasked(zz) ==
    LET z0 == zz[1]
        z1 == zz[2]
        z2 == zz[3]
        c0 == LaneShr(z0, 43)
        c1 == LaneShr(z1, 43)
        c2 == LaneShr(z2, 43)
    IN  [v  |-> << LaneAdd(z0, LaneShl(c2, 2)),
                   LaneAdd(z1, c0),
                   LaneAdd(z2, c1) >>,
         ok |-> /\ NoWrapShl(c2, 2)
                /\ NoWrapAdd(z0, LaneShl(c2, 2))
                /\ NoWrapAdd(z1, c0)
                /\ NoWrapAdd(z2, c1)]

\* The carry step that folds the carry c2 of weight 2^129 as 2 * c2.
F127x4_mul_carry_twice(zz) ==
    LET z0 == zz[1]
        z1 == zz[2]
        z2 == zz[3]
        c0 == LaneShr(z0, 43)
        c1 == LaneShr(z1, 43)
        c2 == LaneShr(z2, 43)
        mask == splat(Ones(43))
    IN  [v  |-> << LaneAdd(LaneAnd(z0, mask), LaneShl(c2, 1)),
                   LaneAdd(LaneAnd(z1, mask), c0),
                   LaneAdd(LaneAnd(z2, mask), c1) >>,
         ok |-> /\ NoWrapShl(c2, 1)
                /\ NoWrapAdd(LaneAnd(z0, mask), LaneShl(c2, 1))
                /\ NoWrapAdd(LaneAnd(z1, mask), c0)
                /\ NoWrapAdd(LaneAnd(z2, mask), c1)]

\* impl Mul<F127x4> for F127x4, from the sums on: the carries c0, c1, c2 out
\* of the low 43 bits of z0, z1, z2 go to the next limb, c2 << 2 to the first.
F127x4_mul_carry(zz) ==
    LET z0 == zz[1]
        z1 == zz[2]
        z2 == zz[3]
        c0 == LaneShr(z0, 43)
        c1 == LaneShr(z1, 43)
        c2 == LaneShr(z2, 43)
        mask == splat(Ones(43))
    IN  [v  |-> << LaneAdd(LaneAnd(z0, mask), LaneShl(c2, 2)),
                   LaneAdd(LaneAnd(z1, mask), c0),
                   LaneAdd(LaneAnd(z2, mask), c1) >>,
         ok |-> /\ NoWrapShl(c2, 2)
                /\ NoWrapAdd(LaneAnd(z0, mask), LaneShl(c2, 2))
                /\ NoWrapAdd(LaneAnd(z1, mask), c0)
                /\ NoWrapAdd(LaneAnd(z2, mask), c1)]

\* impl Mul<F127x4> for F127x4
F127x4_mul(self, other) ==
    Only({ Only({ [v |-> r.v, ok |-> sums.ok /\ r.ok] :
                  r \in { F127x4_mul_carry(sums.v) } }) :
           sums \in { Only({ F127x4_mul_sums(s, o) :
                             s \in { self }, o \in { other } }) } })

(***************************************************************************)
(* src/src/vector/ext_field.rs: four elements of the extension field at a  *)
(* time.  ExtF127x4(a, b) is the pair << a, b >> of F127x4, for a + b i.   *)
(***************************************************************************)
\* impl From<(ExtF127, ExtF127, ExtF127, ExtF127)> for ExtF127x4
ExtF127x4_from(xx) ==
    << F127x4_from([k \in Lanes |-> xx[k][1]]),
       F127x4_from([k \in Lanes |-> xx[k][2]]) >>

\* impl Into<(ExtF127, ExtF127, ExtF127, ExtF127)> for ExtF127x4
ExtF127x4_into(self) ==
    LET xs0 == F127x4_into(self[1])
        ys0 == F127x4_into(self[2])
    IN  [v  |-> Lanewise([k \in Lanes |-> << xs0.v[k], ys0.v[k] >>]),
         ok |-> xs0.ok /\ ys0.ok]

\* impl Add<ExtF127x4> for ExtF127x4
ExtF127x4_add(self, other) ==
    LET re == F127x4_add(self[1], other[1])
        im == F127x4_add(self[2], other[2])
    IN  [v |-> << re.v, im.v >>, ok |-> re.ok /\ im.ok]

\* The result with b + a for b + (-a).
ExtF127x4_mul_result_unnegated(self, other, pac, pbd) ==
    LET a   == self[1]
        b   == self[2]
        c   == other[1]
        d   == other[2]
        nbd == F127x4_neg(pbd)
        re  == F127x4_add(pac, nbd.v)
        nd  == F127x4_neg(d)
        ba  == F127x4_add(b, a)
        cd  == F127x4_add(c, nd.v)
        pr  == F127x4_mul(ba.v, cd.v)
        s1  == F127x4_add(pr.v, pac)
        im  == F127x4_add(s1.v, pbd)
    IN  [v  |-> << re.v, im.v >>,
         ok |-> /\ nbd.ok /\ re.ok /\ nd.ok /\ ba.ok /\ cd.ok
                /\ pr.ok /\ s1.ok /\ im.ok]

\* ExtF127x4(ac + (-bd), (b + (-a)) * (c + (-d)) + ac + bd), for ac = a * c,
\* bd = b * d
ExtF127x4_mul_result(self, other, pac, pbd) ==
    LET a   == self[1]
        b   == self[2]
        c   == other[1]
        d   == other[2]
        nbd == F127x4_neg(pbd)
        re  == F127x4_add(pac, nbd.v)
        na  == F127x4_neg(a)
        nd  == F127x4_neg(d)
        ba  == F127x4_add(b, na.v)
        cd  == F127x4_add(c, nd.v)
        sum(pr)  == Only({ Only({ [v  |-> im.v,
                                   ok |-> pr.ok /\ s1.ok /\ im.ok] :
                                  im \in { F127x4_add(s1.v, pbd) } }) :
                           s1 \in { F127x4_add(pr.v, pac) } })
    IN  Only({ [v  |-> << r.v, i.v >>,
                ok |-> /\ nbd.ok /\ r.ok /\ na.ok /\ nd.ok /\ ba.ok
                       /\ cd.ok /\ i.ok] :
               r \in { re },
               i \in { sum(F127x4_mul(ba.v, cd.v)) } })

\* impl Mul<ExtF127x4> for ExtF127x4
ExtF127x4_mul(self, other) ==
    LET pac == F127x4_mul(self[1], other[1])
        pbd == F127x4_mul(self[2], other[2])
        r   == ExtF127x4_mul_result(self, other, pac.v, pbd.v)
    IN  [v |-> r.v, ok |-> pac.ok /\ pbd.ok /\ r.ok]

\* The integer lane k of F127x4(l0, l1, l2) stands for:
\* l0 + l1 * 2^43 + l2 * 2^86.
LimbValue(v, k) ==
    BAdd(v[1][k], BAdd(BShl(v[2][k], 43), BShl(v[3][k], 86)))

(***************************************************************************)
(* The field GF(p) itself, for reference: the canonical representative of  *)
(* a natural number.  2^127 = 1 (mod p), so a = hi * 2^127 + lo is         *)
(* congruent to hi + lo.                                                   *)
(***************************************************************************)
RECURSIVE ModP(_)
ModP(a) ==
    IF BLt(a, P) THEN a
    ELSE IF a = P THEN Zero
    ELSE ModP(BAdd(BShr(a, 127), BLow(a, 127)))

Canonical(v) == BLt(v, P)
Congruent(a, b) == ModP(a) = ModP(b)

\* The equality of F127 the tests compare with: of the field elements, that
\* is of the canonical representatives.
F127_eq(a, b) == ModP(a) = ModP(b)

(***************************************************************************)
(* State: the locals of a test of the library.  pc names the test and the  *)
(* place in it; x and y are its inputs, z the field element it computes,   *)
(* n the number of loop iterations done, u a u128 extracted from z, and ok *)
(* whether no operation so far overflowed or failed an assertion.  ac and  *)
(* bd are the two products ExtF127's multiplication keeps, and nmul the    *)
(* number of prime-field multiplications it has done.                      *)
(***************************************************************************)
VARIABLES pc, x, y, z, n, u, ok, ac, bd, nmul, xs, ys, zs, x_vec, y_vec, z_vec
extVars == << ac, bd, nmul >>
vecVars == << xs, ys, zs, x_vec, y_vec, z_vec >>
vars == << pc, x, y, z, n, u, ok, extVars, vecVars >>

(***************************************************************************)
(* Inputs.                                                                 *)
(***************************************************************************)
\* The 128-bit values of the tests of serial.rs.
TestReduced ==
    { Dec(<<101,054,725,971,136,791,246,222,244,709,531,340,474>>),
      Dec(<<38,188,712,660,835,962,328,561,942,614,081,743,514>>),
      Dec(<<43,654,918,112,560,223,727,172,090,912,658,261,884>>),
      Dec(<<61,331,686,004,747,624,160,469,066,397,670,963,925>>) }
TestUnreduced ==
    { Dec(<<316,359,973,995,368,844,939,217,233,962,370,990,276>>),
      Dec(<<323,686,882,786,572,482,033,927,420,505,583,807,954>>),
      Dec(<<339,808,425,234,034,235,397,003,825,875,747,537,381>>),
      Dec(<<78,832,676,377,202,070,809,965,755,704,023,168,971>>) }
\* let x = F127::from(38188712660835962328561942614081743514u128)
TestX == Dec(<<38,188,712,660,835,962,328,561,942,614,081,743,514>>)

\* The values within Near of the powers of two 2^i, i in S.
Near == 1
NearPowers(S) ==
    { BAdd(Pow2(i), Small(d)) : i \in S, d \in 0..Near }
    \cup { BSub(Pow2(i), Small(d)) : i \in S \ {0, 1}, d \in 1..Near }

\* Inputs of F127::from: its precondition is x < 2 * P.
FromInputs ==
    { a \in NearPowers(0..U128Bits) \cup TestReduced \cup TestUnreduced
             \cup { Zero, P, BSub(P, One), BSub(TwoP, One), BSub(TwoP, Small(2)) } :
        BLt(a, TwoP) }

\* Canonical field elements at the edges of the 64-bit halves and of the field.
FieldPool ==
    { a \in NearPowers({0, 63, 64, 126, 127}) \cup TestReduced
             \cup { Zero, BSub(Pow2(127), Pow2(64)), BSub(P, One) } :
        Canonical(a) }

\* The loops of the tests run 1024 times.
Iterations == 1024
IterInputs == { Zero, One, TestX, BSub(P, One), Pow2(126) }

NoExt == ac = Zero /\ bd = Zero /\ nmul = 0
NoVec ==
    /\ xs = splat(Zero) /\ ys = splat(Zero) /\ zs = splat(Zero)
    /\ x_vec = F127x4_from(splat(Zero))
    /\ y_vec = F127x4_from(splat(Zero))
    /\ z_vec = F127x4_from(splat(Zero))
Idle == y = Zero /\ z = Zero /\ n = 0 /\ u = Zero /\ ok = TRUE /\ NoExt /\ NoVec

(***************************************************************************)
(* Conversion from and to u128.                                            *)
(***************************************************************************)
InitFrom == pc = "from" /\ x \in FromInputs /\ Idle

\* let f = F127::from(x)
Convert ==
    /\ pc = "from"
    /\ \E res \in { F127_from(x) } :
           /\ z' = res.v
           /\ ok' = res.ok
    /\ pc' = "into"
    /\ UNCHANGED << x, y, n, u, extVars, vecVars >>

\* let u: u128 = f.into()
Extract ==
    /\ pc = "into"
    /\ u' = F127_into(z)
    /\ pc' = "extracted"
    /\ UNCHANGED << x, y, z, n, ok, extVars, vecVars >>

NextFrom == Convert \/ Extract
SpecFrom == InitFrom /\ [][NextFrom]_vars

\* C1: for every x < 2p, F127::from(x) extracted to u128 is x mod p: x itself
\* below p, x - p from p on.
FromReduces ==
    pc = "extracted" =>
        /\ u = BMod(x, P)
        /\ BLt(x, P) => u = x
        /\ ~BLt(x, P) => BAdd(u, P) = x
\* C1: from(2p - 1) is p - 1.
FromReducesWitness ==
    /\ pc = "extracted"
    /\ x = BSub(TwoP, One)
    /\ u = BSub(P, One)

(***************************************************************************)
(* Multiplication: one product of two field elements, and the loop of the  *)
(* test iterated_mul.                                                      *)
(***************************************************************************)
InitMul ==
    \/ pc = "mul" /\ x \in FieldPool /\ y \in FieldPool
       /\ z = Zero /\ n = 0 /\ u = Zero /\ ok = TRUE /\ NoExt /\ NoVec
    \/ pc = "iterated_mul" /\ x \in IterInputs /\ y = Zero
       /\ z = F127_from(One).v /\ n = 0 /\ u = Zero /\ ok = TRUE /\ NoExt /\ NoVec

\* x * y
MulPair ==
    /\ pc = "mul"
    /\ \E res \in { F127_mul(x, y) } :
           /\ z' = res.v
           /\ ok' = res.ok
    /\ pc' = "mul_done"
    /\ UNCHANGED << x, y, n, u, extVars, vecVars >>

\* z = z * x; y keeps the z that was multiplied.
MulStep ==
    /\ pc = "iterated_mul"
    /\ n < Iterations
    /\ y' = z
    /\ \E res \in { F127_mul(z, x) } :
           /\ z' = res.v
           /\ ok' = (ok /\ res.ok)
    /\ n' = n + 1
    /\ UNCHANGED << pc, x, u, extVars, vecVars >>

NextMul == MulPair \/ MulStep
SpecMul == InitMul /\ [][NextMul]_vars

\* C3: the product of canonical x and y is exactly (x * y) mod p, below p,
\* for one product and at every step of z <- z * x from z = 1.
MulIsProductModP ==
    (pc = "mul_done" \/ (pc = "iterated_mul" /\ n > 0)) =>
        /\ Canonical(x) /\ Canonical(y)
        /\ z = ModP(BMul(x, y))
        /\ BLt(z, P)
\* C3: the loop of iterated_mul ends on the value the test expects.
MulIsProductModPWitness ==
    /\ pc = "iterated_mul"
    /\ n = Iterations
    /\ x = TestX
    /\ z = Dec(<<63,115,059,284,280,959,221,284,862,234,304,285,851>>)

(***************************************************************************)
(* The loop of the test iterated_add.                                      *)
(***************************************************************************)
InitAdd ==
    /\ pc = "iterated_add" /\ x \in IterInputs /\ y = Zero
    /\ z = F127_from(Zero).v /\ n = 0 /\ u = Zero /\ ok = TRUE /\ NoExt /\ NoVec

\* z = z + x
AddStep ==
    /\ pc = "iterated_add"
    /\ n < Iterations
    /\ y' = z
    /\ \E res \in { F127_add(z, x) } :
           /\ z' = res.v
           /\ ok' = (ok /\ res.ok)
    /\ n' = n + 1
    /\ UNCHANGED << pc, x, u, extVars, vecVars >>

\* let z_repr: u128 = z.into()
AddExtract ==
    /\ pc = "iterated_add"
    /\ n = Iterations
    /\ u' = F127_into(z)
    /\ pc' = "iterated_add_done"
    /\ UNCHANGED << x, y, z, n, ok, extVars, vecVars >>

NextAdd == AddStep \/ AddExtract
SpecAdd == InitAdd /\ [][NextAdd]_vars

\* C7: after n additions of a canonical x to 0 the inner value is congruent to
\* n * x, and the u128 extracted after 1024 of them is (1024 * x) mod p.
IteratedAddIsMultiple ==
    /\ pc = "iterated_add" => Congruent(z, BMul(Small(n), x))
    /\ pc = "iterated_add_done" => u = ModP(BMul(Small(Iterations), x))
\* C7: the loop of iterated_add ends on the value the test expects.
IteratedAddIsMultipleWitness ==
    /\ pc = "iterated_add_done"
    /\ x = TestX
    /\ u = Dec(<<142,910,752,248,571,357,891,036,685,882,245,146,853>>)

(***************************************************************************)
(* Subtraction: one difference of two inner values in [0, p], and the loop *)
(* of the test iterated_sub.                                               *)
(***************************************************************************)
InitSub ==
    \/ pc = "sub" /\ x \in FieldPool \cup {P} /\ y \in FieldPool \cup {P}
       /\ z = Zero /\ n = 0 /\ u = Zero /\ ok = TRUE /\ NoExt /\ NoVec
    \/ pc = "iterated_sub" /\ x \in IterInputs /\ y = Zero
       /\ z = F127_from(Zero).v /\ n = 0 /\ u = Zero /\ ok = TRUE /\ NoExt /\ NoVec

\* x - y
SubPair ==
    /\ pc = "sub"
    /\ \E res \in { F127_sub(x, y) } :
           /\ z' = res.v
           /\ ok' = res.ok
    /\ pc' = "sub_done"
    /\ UNCHANGED << x, y, n, u, extVars, vecVars >>

\* z = z - x
SubStep ==
    /\ pc = "iterated_sub"
    /\ n < Iterations
    /\ y' = z
    /\ \E res \in { F127_sub(z, x) } :
           /\ z' = res.v
           /\ ok' = (ok /\ res.ok)
    /\ n' = n + 1
    /\ UNCHANGED << pc, x, u, extVars, vecVars >>

NextSub == SubPair \/ SubStep
SpecSub == InitSub /\ [][NextSub]_vars

\* C8: z0 - z1 never underflows; x - y lies in [0, p] and is congruent to
\* x - y; n subtractions of x from 0 leave -(n * x) mod p, which for the
\* loop of the test iterated_sub is the value the test expects.
SubNeverUnderflows ==
    /\ ok
    /\ pc = "sub_done" => BLe(z, P) /\ Congruent(BAdd(z, y), x)
    /\ pc = "iterated_sub" =>
          /\ Canonical(z) /\ ModP(BAdd(z, BMul(Small(n), x))) = Zero
          /\ n = Iterations /\ x = TestX =>
                 z = Dec(<<27,230,431,211,897,873,840,650,617,833,638,958,874>>)
\* C8: in the loop of iterated_sub a difference z - x is taken of a z smaller
\* than x: the subtraction borrows, and leaves z + p - x.
SubNeverUnderflowsWitness ==
    /\ pc = "iterated_sub"
    /\ n > 0
    /\ x = TestX
    /\ BLt(y, x)
    /\ z = BSub(BAdd(y, P), x)

(***************************************************************************)
(* Sequences of field operations: z starts as F127::from of an input and   *)
(* each step replaces it by its negation, or by its sum, difference or     *)
(* product with an operand w, which is an earlier result: a converted      *)
(* input, or z itself.                                                     *)
(***************************************************************************)
MaxOps == 2
ChainInputs == { Zero, One, BSub(P, One), P, BSub(TwoP, One), TestX, Pow2(64) }
ChainOperands == { F127_from(a).v : a \in { Zero, One, BSub(P, One), TestX, Pow2(64) } }

InitChain ==
    /\ pc = "chain" /\ x \in ChainInputs /\ y = Zero
    /\ z = F127_from(x).v /\ n = 0 /\ u = F127_into(F127_from(x).v)
    /\ ok = F127_from(x).ok /\ NoExt /\ NoVec

\* The step z <- r, for the result r of an operation on z and w.
ChainStep(w, r) ==
    /\ y' = w
    /\ \E res \in { r } :
           /\ z' = res.v
           /\ u' = F127_into(res.v)
           /\ ok' = (ok /\ res.ok)
    /\ n' = n + 1
    /\ UNCHANGED << pc, x, extVars, vecVars >>

ChainNeg ==
    /\ pc = "chain" /\ n < MaxOps
    /\ ChainStep(z, F127_neg(z))
ChainAdd ==
    /\ pc = "chain" /\ n < MaxOps
    /\ \E w \in ChainOperands \cup {z} : ChainStep(w, F127_add(z, w))
ChainSub ==
    /\ pc = "chain" /\ n < MaxOps
    /\ \E w \in ChainOperands \cup {z} : ChainStep(w, F127_sub(z, w))
ChainRevSub ==
    /\ pc = "chain" /\ n < MaxOps
    /\ \E w \in ChainOperands : ChainStep(w, F127_sub(w, z))
ChainMul ==
    /\ pc = "chain" /\ n < MaxOps
    /\ \E w \in ChainOperands \cup {z} : ChainStep(w, F127_mul(z, w))

NextChain == ChainNeg \/ ChainAdd \/ ChainSub \/ ChainRevSub \/ ChainMul
SpecChain == InitChain /\ [][NextChain]_vars

\* C4: the u128 extracted from any field element computed from canonical
\* inputs is the canonical representative, below p.
ExtractionIsCanonical == pc = "chain" /\ Canonical(x) => BLt(u, P)

\* C5: the inner value of every result is in [0, p], and no checked operation
\* overflowed on the way to it.
InnerValueInRange == pc = "chain" => BLe(z, P) /\ ok
\* C5: the representative p itself is reached, and operated on.
InnerValueInRangeWitness ==
    /\ pc = "chain"
    /\ n = MaxOps
    /\ y = P
    /\ BLe(z, P)

(***************************************************************************)
(* The additive inverse: a + (-a).                                         *)
(***************************************************************************)
InitNegAdd ==
    /\ pc = "neg"
    /\ x \in { a \in FromInputs : Canonical(a) }
    /\ Idle

\* let y = -x
Negate ==
    /\ pc = "neg"
    /\ \E res \in { F127_neg(x) } :
           /\ y' = res.v
           /\ ok' = res.ok
    /\ pc' = "add"
    /\ UNCHANGED << x, z, n, u, extVars, vecVars >>

\* let z = x + y
AddInverse ==
    /\ pc = "add"
    /\ \E res \in { F127_add(x, y) } :
           /\ z' = res.v
           /\ ok' = (ok /\ res.ok)
    /\ pc' = "into"
    /\ UNCHANGED << x, y, n, u, extVars, vecVars >>

NextNegAdd == Negate \/ AddInverse \/ Extract
SpecNegAdd == InitNegAdd /\ [][NextNegAdd]_vars

\* C6: for canonical a, the u128 extracted from a + (-a) is 0.
SumWithInverseIsZero == pc = "extracted" => u = Zero

(***************************************************************************)
(* The extension field's multiplication, statement by statement.           *)
(***************************************************************************)
ExtPool ==
    LET K == { Zero, One, BSub(P, One), Pow2(64), TestX }
    IN  { << a, b >> : a \in K, b \in K }
\* The operands and the product of the test mul_vs_sage.
SageX == << Dec(<<64,602,349,736,890,547,230,188,097,686,032,968,383>>),
            Dec(<<58,401,672,467,634,577,377,614,110,902,426,170,573>>) >>
SageY == << Dec(<<36,178,516,401,130,528,447,705,023,720,593,931,265>>),
            Dec(<<57,463,319,253,223,551,344,966,612,196,770,510,351>>) >>
SageZ == << Dec(<<167,087,788,139,004,297,409,615,161,698,155,907,378>>),
            Dec(<<77,896,319,433,764,489,876,703,096,387,833,153,505>>) >>

InitExtMul ==
    /\ pc = "ext_mul"
    /\ \/ x \in ExtPool /\ y \in ExtPool
       \/ x = ExtF127_from(SageX).v /\ y = ExtF127_from(SageY).v
    /\ z = Zero /\ n = 0 /\ u = Zero /\ ok = TRUE /\ NoExt /\ NoVec

\* let ac = a * c
ExtMulAC ==
    /\ pc = "ext_mul"
    /\ \E res \in { F127_mul(x[1], y[1]) } :
           /\ ac' = res.v
           /\ ok' = (ok /\ res.ok)
    /\ nmul' = nmul + 1
    /\ pc' = "ext_mul_bd"
    /\ UNCHANGED << x, y, z, n, u, bd, vecVars >>

\* let bd = b * d
ExtMulBD ==
    /\ pc = "ext_mul_bd"
    /\ \E res \in { F127_mul(x[2], y[2]) } :
           /\ bd' = res.v
           /\ ok' = (ok /\ res.ok)
    /\ nmul' = nmul + 1
    /\ pc' = "ext_mul_result"
    /\ UNCHANGED << x, y, z, n, u, ac, vecVars >>

\* ExtF127(ac - bd, (b - a) * (c - d) + ac + bd)
ExtMulResult ==
    /\ pc = "ext_mul_result"
    /\ \E res \in { ExtF127_mul_result(x, y, ac, bd) } :
           /\ z' = res.v
           /\ ok' = (ok /\ res.ok)
    /\ nmul' = nmul + 1
    /\ pc' = "ext_mul_done"
    /\ UNCHANGED << x, y, n, u, ac, bd, vecVars >>

NextExtMul == ExtMulAC \/ ExtMulBD \/ ExtMulResult
SpecExtMul == InitExtMul /\ [][NextExtMul]_vars

\* C9: (a + bi)(c + di) has real part congruent to ac - bd and imaginary part
\* congruent to ad + bc, after exactly three prime-field multiplications.
ExtMulIsComplexProduct ==
    pc = "ext_mul_done" =>
        /\ Congruent(BAdd(z[1], BMul(x[2], y[2])), BMul(x[1], y[1]))
        /\ Congruent(z[2], BAdd(BMul(x[1], y[2]), BMul(x[2], y[1])))
        /\ nmul = 3
        /\ z = ExtF127_mul(x, y).v
\* C9: the product of the test mul_vs_sage is the one the test expects.
ExtMulIsComplexProductWitness ==
    /\ pc = "ext_mul_done"
    /\ x = SageX
    /\ y = SageY
    /\ z = ExtF127_from(SageZ).v

(***************************************************************************)
(* src/src/vector/prime_field.rs, tests from_into_F127_round_trips and     *)
(* mul_matches_serial: four field elements are packed into a vector, the   *)
(* vector is unpacked again, or two vectors are multiplied and the product *)
(* is unpacked.                                                            *)
(***************************************************************************)
\* Canonical field elements at the edges of the 43-bit limbs, of the 52-bit
\* multiplicands and of the field, and the values of the tests.
VecPool ==
    << Zero, One, Ones(43), Pow2(43), Ones(86), Pow2(86), Ones(126),
       Pow2(126), BSub(P, One), BSub(P, Pow2(43)), BSub(P, Pow2(86)),
       BSub(Pow2(86), Pow2(43)), BAdd(Pow2(126), Ones(43)),
       BAdd(Pow2(52), One), BSub(Pow2(127), Pow2(64)),
       Dec(<<101,054,725,971,136,791,246,222,244,709,531,340,474>>),
       Dec(<<38,188,712,660,835,962,328,561,942,614,081,743,514>>),
       Dec(<<43,654,918,112,560,223,727,172,090,912,658,261,884>>),
       Dec(<<61,331,686,004,747,624,160,469,066,397,670,963,925>>) >>
\* The four values of the pool from the i-th on, cyclically.
VecTupleOf(pool, i) == [k \in Lanes |-> pool[((i + k - 2) % Len(pool)) + 1]]
VecTuple(i) == VecTupleOf(VecPool, i)
VecTuples == LET pool == VecPool IN { VecTupleOf(pool, i) : i \in 1..Len(pool) }

InitVec ==
    /\ pc = "pack"
    /\ xs \in VecTuples
    /\ ys \in VecTuples
    /\ zs = splat(Zero)
    /\ x_vec = F127x4_from(splat(Zero))
    /\ y_vec = F127x4_from(splat(Zero))
    /\ z_vec = F127x4_from(splat(Zero))
    /\ x = Zero /\ y = Zero /\ z = Zero /\ n = 0 /\ u = Zero /\ ok = TRUE /\ NoExt

\* let x_vec: F127x4 = xs.into()
Pack ==
    /\ pc = "pack"
    /\ x_vec' = F127x4_from(xs)
    /\ y_vec' = F127x4_from(ys)
    /\ pc' = "packed"
    /\ UNCHANGED << x, y, z, n, u, ok, extVars, xs, ys, zs, z_vec >>

\* x_vec.into()
RoundTrip ==
    /\ pc = "packed"
    /\ \E res \in { F127x4_into(x_vec) } :
           /\ zs' = res.v
           /\ ok' = (ok /\ res.ok)
    /\ pc' = "round_trip"
    /\ UNCHANGED << x, y, z, n, u, extVars, xs, ys, x_vec, y_vec, z_vec >>

\* let z_vec = x_vec * y_vec
VecMul ==
    /\ pc = "packed"
    /\ \E res \in { F127x4_mul(x_vec, y_vec) } :
           /\ z_vec' = res.v
           /\ ok' = (ok /\ res.ok)
    /\ pc' = "multiplied"
    /\ UNCHANGED << x, y, z, n, u, extVars, xs, ys, zs, x_vec, y_vec >>

\* let zs: (F127, F127, F127, F127) = z_vec.into()
Unpack ==
    /\ pc = "multiplied"
    /\ \E res \in { F127x4_into(z_vec) } :
           /\ zs' = res.v
           /\ ok' = (ok /\ res.ok)
    /\ pc' = "unpacked"
    /\ UNCHANGED << x, y, z, n, u, extVars, xs, ys, x_vec, y_vec, z_vec >>

NextVec == Pack \/ RoundTrip \/ VecMul \/ Unpack
SpecVec == InitVec /\ [][NextVec]_vars

\* C2: packing two tuples of canonical field elements, multiplying the
\* vectors once and unpacking gives in every lane the scalar product of the
\* lane's elements.
VectorMulMatchesScalar ==
    pc = "unpacked" =>
        /\ ok
        /\ \A k \in Lanes :
               /\ Canonical(xs[k]) /\ Canonical(ys[k])
               /\ zs[k] = F127_mul(xs[k], ys[k]).v
\* C2: the squares of the test mul_matches_serial.
VectorMulMatchesScalarWitness ==
    /\ pc = "unpacked"
    /\ xs = VecTuple(16)
    /\ ys = xs
    /\ zs = [k \in Lanes |-> ModP(BMul(xs[k], xs[k]))]

\* C10: the limbs of a packed canonical value are its bits [0, 43), [43, 86)
\* and [86, 127), and unpacking the packed tuple gives the tuple back.
PackUnpackRoundTrip ==
    /\ pc = "packed" =>
           \A k \in Lanes :
               /\ Canonical(xs[k])
               /\ BLt(x_vec[1][k], Pow2(43))
               /\ BLt(x_vec[2][k], Pow2(43))
               /\ BLt(x_vec[3][k], Pow2(41))
               /\ xs[k] = BAdd(x_vec[1][k],
                               BAdd(BMul(Pow2(43), x_vec[2][k]),
                                    BMul(Pow2(86), x_vec[3][k])))
    /\ pc = "round_trip" => ok /\ zs = xs
\* C10: the tuple of the test from_into_F127_round_trips comes back.
PackUnpackRoundTripWitness ==
    /\ pc = "round_trip"
    /\ xs = VecTuple(16)
    /\ zs = xs
    /\ \A k \in Lanes : ~BLt(xs[k], Pow2(86))

(***************************************************************************)
(* The limbs of a product of packed vectors.                               *)
(***************************************************************************)
\* C11: after a multiplication of two vectors packed from canonical values,
\* every lane of each of the three limbs is below 2^43.
ProductLimbsBelow2To43 ==
    pc = "multiplied" =>
        \A i \in 1..3 : \A k \in Lanes : BLt(z_vec[i][k], Pow2(43))
\* C11, amended: every lane of each limb is below 2^43 + 2^13, its low 43
\* bits and a carry, and the lanes stand for integers congruent to the
\* products.
ProductLimbsNearlyBelow2To43 ==
    pc = "multiplied" =>
        /\ \A i \in 1..3 : \A k \in Lanes :
               BLt(z_vec[i][k], BAdd(Pow2(43), Pow2(13)))
        /\ \A k \in Lanes :
               Congruent(LimbValue(z_vec, k), BMul(xs[k], ys[k]))
\* C11: the square of p - 1 has the first limb 2^43.
ProductLimbsNearlyBelow2To43Witness ==
    /\ pc = "multiplied"
    /\ \E k \in Lanes :
           /\ xs[k] = BSub(P, One) /\ ys[k] = BSub(P, One)
           /\ z_vec[1][k] = Pow2(43)

\* C14: the reduction of the vector multiplication uses 2^129 = 2 (mod p):
\* the part of the product of weight 2^129 comes back into the limbs twice,
\* and so does the carry c2 out of the limb z2.
ReductionFolds2To129As2 ==
    pc = "multiplied" =>
        \E sums \in { F127x4_mul_sums(x_vec, y_vec).v } :
            \A k \in Lanes :
                LET prod == BMul(xs[k], ys[k])
                IN  /\ Congruent(LimbValue(z_vec, k),
                                 BAdd(BLow(prod, 129),
                                      BMul(Small(2), BShr(prod, 129))))
                    /\ z_vec[1][k] = BAdd(BLow(sums[1][k], 43),
                                          BMul(Small(2), BShr(sums[3][k], 43)))
\* C14, amended: the reduction uses 2^129 = 4 (mod p): the part of the
\* product of weight 2^129 comes back into the limbs four times, and so does
\* the carry c2 out of the limb z2.
ReductionFolds2To129As4 ==
    pc = "multiplied" =>
        \E sums \in { F127x4_mul_sums(x_vec, y_vec).v } :
            \A k \in Lanes :
                LET prod == BMul(xs[k], ys[k])
                IN  /\ Congruent(LimbValue(z_vec, k),
                                 BAdd(BLow(prod, 129),
                                      BMul(Small(4), BShr(prod, 129))))
                    /\ z_vec[1][k] = BAdd(BLow(sums[1][k], 43),
                                          BMul(Small(4), BShr(sums[3][k], 43)))
\* C14: a product that reaches beyond 2^129, with a carry out of z2.
ReductionFolds2To129As4Witness ==
    /\ pc = "multiplied"
    /\ \E k \in Lanes :
           /\ BShr(BMul(xs[k], ys[k]), 129) # Zero
           /\ BShr(F127x4_mul_sums(x_vec, y_vec).v[3][k], 43) # Zero
           /\ ~Congruent(BMul(xs[k], ys[k]),
                         BAdd(BLow(BMul(xs[k], ys[k]), 129),
                              BMul(Small(2), BShr(BMul(xs[k], ys[k]), 129))))

(***************************************************************************)
(* src/src/vector/prime_field.rs, test add_negation_is_zero: a packed      *)
(* vector is negated, added to its negation, and the sum is unpacked.      *)
(***************************************************************************)
\* Canonical field elements: those of VecPool, the powers of two and their
\* predecessors.
NegPool ==
    VecPool \o [i \in 1..127 |-> Pow2(i - 1)] \o [i \in 1..126 |-> Ones(i)]

InitVecNeg ==
    /\ pc = "neg_pack"
    /\ xs \in LET pool == NegPool IN { VecTupleOf(pool, i) : i \in 1..Len(pool) }
    /\ ys = splat(Zero)
    /\ zs = splat(Zero)
    /\ x_vec = F127x4_from(splat(Zero))
    /\ y_vec = F127x4_from(splat(Zero))
    /\ z_vec = F127x4_from(splat(Zero))
    /\ x = Zero /\ y = Zero /\ z = Zero /\ n = 0 /\ u = Zero /\ ok = TRUE /\ NoExt

\* let x_vec: F127x4 = xs.into()
PackNeg ==
    /\ pc = "neg_pack"
    /\ x_vec' = F127x4_from(xs)
    /\ pc' = "vec_neg"
    /\ UNCHANGED << x, y, z, n, u, ok, extVars, xs, ys, zs, y_vec, z_vec >>

\* -x_vec
VecNeg ==
    /\ pc = "vec_neg"
    /\ \E res \in { F127x4_neg(x_vec) } :
           /\ y_vec' = res.v
           /\ ok' = (ok /\ res.ok)
    /\ pc' = "vec_add"
    /\ UNCHANGED << x, y, z, n, u, extVars, xs, ys, zs, x_vec, z_vec >>

\* x_vec + (-x_vec)
VecAddInverse ==
    /\ pc = "vec_add"
    /\ \E res \in { F127x4_add(x_vec, y_vec) } :
           /\ z_vec' = res.v
           /\ ok' = (ok /\ res.ok)
    /\ pc' = "vec_sum"
    /\ UNCHANGED << x, y, z, n, u, extVars, xs, ys, zs, x_vec, y_vec >>

\* let zs: (F127, F127, F127, F127) = (x_vec + (-x_vec)).into()
UnpackSum ==
    /\ pc = "vec_sum"
    /\ \E res \in { F127x4_into(z_vec) } :
           /\ zs' = res.v
           /\ ok' = (ok /\ res.ok)
    /\ pc' = "sum_unpacked"
    /\ UNCHANGED << x, y, z, n, u, extVars, xs, ys, x_vec, y_vec, z_vec >>

NextVecNeg == PackNeg \/ VecNeg \/ VecAddInverse \/ UnpackSum
SpecVecNeg == InitVecNeg /\ [][NextVecNeg]_vars

\* C12: the negation of a packed vector is, limb by limb, the difference of
\* 8 * (2^43 - 1), 8 * (2^43 - 1), 8 * (2^41 - 1) and the limb, no lane
\* underflows, and x + (-x) unpacks to zero in every lane.
VectorSumWithInverseIsZero ==
    /\ ok
    /\ pc = "vec_add" =>
           \A k \in Lanes :
               /\ BAdd(y_vec[1][k], x_vec[1][k]) = BMul(Small(8), Ones(43))
               /\ BAdd(y_vec[2][k], x_vec[2][k]) = BMul(Small(8), Ones(43))
               /\ BAdd(y_vec[3][k], x_vec[3][k]) = BMul(Small(8), Ones(41))
    /\ pc = "sum_unpacked" => \A k \in Lanes : zs[k] = Zero
\* C12: the sum of the test's vector and its negation is unpacked.
VectorSumWithInverseIsZeroWitness ==
    /\ pc = "sum_unpacked"
    /\ xs = VecTuple(16)
    /\ \A k \in Lanes : LimbValue(z_vec, k) = BMul(Small(8), P)
    /\ zs = splat(Zero)

(***************************************************************************)
(* src/src/vector/ext_field.rs, test mul_matches_serial: two tuples of     *)
(* extension-field elements are packed, the vectors are multiplied with    *)
(* three multiplications of F127x4, and the product is unpacked.           *)
(***************************************************************************)
\* Extension-field elements with canonical components: the four of the
\* test, and elements at the edges of the field and of the limbs.
ExtVecPool ==
    LET t1 == Dec(<<43,654,918,112,560,223,727,172,090,912,658,261,884>>)
        t2 == Dec(<<38,188,712,660,835,962,328,561,942,614,081,743,514>>)
        t3 == Dec(<<61,331,686,004,747,624,160,469,066,397,670,963,925>>)
        p1 == BSub(P, One)
    IN  << << t1, t2 >>, << t2, t3 >>, << t2, t1 >>, << t1, t3 >>,
           << One, One >>, << One, p1 >>, << p1, p1 >>, << Zero, p1 >>,
           << p1, Zero >>, << Pow2(126), Ones(43) >>,
           << Ones(86), BSub(P, Pow2(43)) >>, << Zero, Zero >> >>

InitExtVec ==
    /\ pc = "ext_pack"
    /\ xs \in LET pool == ExtVecPool
              IN  { VecTupleOf(pool, i) : i \in 1..Len(pool) }
    /\ ys \in LET pool == ExtVecPool
              IN  { VecTupleOf(pool, i) : i \in 1..Len(pool) }
    /\ zs = splat(Zero)
    /\ x_vec = F127x4_from(splat(Zero))
    /\ y_vec = F127x4_from(splat(Zero))
    /\ z_vec = F127x4_from(splat(Zero))
    /\ x = Zero /\ y = Zero /\ z = Zero /\ n = 0 /\ u = Zero /\ ok = TRUE /\ NoExt

\* let x_vec: ExtF127x4 = xs.into()
ExtVecPack ==
    /\ pc = "ext_pack"
    /\ x_vec' = ExtF127x4_from(xs)
    /\ y_vec' = ExtF127x4_from(ys)
    /\ pc' = "ext_vec_ac"
    /\ UNCHANGED << x, y, z, n, u, ok, extVars, xs, ys, zs, z_vec >>

\* let ac = a * c
ExtVecMulAC ==
    /\ pc = "ext_vec_ac"
    /\ \E res \in { F127x4_mul(x_vec[1], y_vec[1]) } :
           /\ ac' = res.v
           /\ ok' = (ok /\ res.ok)
    /\ nmul' = nmul + 1
    /\ pc' = "ext_vec_bd"
    /\ UNCHANGED << x, y, z, n, u, bd, vecVars >>

\* let bd = b * d
ExtVecMulBD ==
    /\ pc = "ext_vec_bd"
    /\ \E res \in { F127x4_mul(x_vec[2], y_vec[2]) } :
           /\ bd' = res.v
           /\ ok' = (ok /\ res.ok)
    /\ nmul' = nmul + 1
    /\ pc' = "ext_vec_result"
    /\ UNCHANGED << x, y, z, n, u, ac, vecVars >>

\* ExtF127x4(ac + (-bd), (b + (-a)) * (c + (-d)) + ac + bd)
ExtVecMulResult ==
    /\ pc = "ext_vec_result"
    /\ \E res \in { ExtF127x4_mul_result(x_vec, y_vec, ac, bd) } :
           /\ z_vec' = res.v
           /\ ok' = (ok /\ res.ok)
    /\ nmul' = nmul + 1
    /\ pc' = "ext_vec_done"
    /\ UNCHANGED << x, y, z, n, u, ac, bd, xs, ys, zs, x_vec, y_vec >>

\* let zs: (ExtF127, ExtF127, ExtF127, ExtF127) = z_vec.into()
ExtVecUnpack ==
    /\ pc = "ext_vec_done"
    /\ \E res \in { ExtF127x4_into(z_vec) } :
           /\ zs' = res.v
           /\ ok' = (ok /\ res.ok)
    /\ pc' = "ext_unpacked"
    /\ UNCHANGED << x, y, z, n, u, extVars, xs, ys, x_vec, y_vec, z_vec >>

NextExtVec ==
    ExtVecPack \/ ExtVecMulAC \/ ExtVecMulBD \/ ExtVecMulResult \/ ExtVecUnpack
SpecExtVec == InitExtVec /\ [][NextExtVec]_vars

\* C13: packing two tuples of extension-field elements with canonical
\* components, multiplying the vectors once and unpacking gives in every lane
\* an element equal, component by component, to the scalar product of the
\* lane's elements.
ExtVectorMulMatchesScalar ==
    pc = "ext_unpacked" =>
        \A k \in Lanes :
            /\ Canonical(xs[k][1]) /\ Canonical(xs[k][2])
            /\ Canonical(ys[k][1]) /\ Canonical(ys[k][2])
            /\ F127_eq(zs[k][1], ExtF127_mul(xs[k], ys[k]).v[1])
            /\ F127_eq(zs[k][2], ExtF127_mul(xs[k], ys[k]).v[2])
\* C13: the squares of the test mul_matches_serial, after three
\* multiplications of F127x4.
ExtVectorMulMatchesScalarWitness ==
    /\ pc = "ext_unpacked"
    /\ xs = VecTupleOf(ExtVecPool, 1)
    /\ ys = xs
    /\ nmul = 3
    /\ \A k \in Lanes :
           /\ zs[k][1] = ModP(BAdd(BMul(xs[k][1], xs[k][1]),
                                   BMul(BSub(P, xs[k][2]), xs[k][2])))
           /\ zs[k][2] = ModP(BMul(Small(2), BMul(xs[k][1], xs[k][2])))

(***************************************************************************)
(* src/src/vector/prime_field.rs: products of products.  A packed vector   *)
(* is multiplied again and again, by itself, by the packed vector or by    *)
(* an earlier product, without unpacking.                                  *)
(***************************************************************************)
MaxVecMuls == 3

InitVecChain ==
    /\ pc = "vec_chain"
    /\ \E i \in 1..Len(VecPool) : xs = VecTuple(i) /\ ys = VecTuple(i + 7)
    /\ zs = splat(Zero)
    /\ x_vec = F127x4_from(xs)
    /\ y_vec = F127x4_from(ys)
    /\ z_vec = F127x4_from(xs)
    /\ x = Zero /\ y = Zero /\ z = Zero /\ n = 0 /\ u = Zero /\ ok = TRUE /\ NoExt

\* z_vec = z_vec * w, for an earlier value w
VecChainStep(w) ==
    /\ pc = "vec_chain"
    /\ n < MaxVecMuls
    /\ \E res \in { F127x4_mul(z_vec, w) } :
           /\ z_vec' = res.v
           /\ ok' = (ok /\ res.ok)
    /\ y_vec' = w
    /\ n' = n + 1
    /\ UNCHANGED << pc, x, y, z, u, extVars, xs, ys, zs, x_vec >>

VecChainSquare == VecChainStep(z_vec)
VecChainMulPacked == VecChainStep(x_vec)
VecChainMulEarlier == VecChainStep(y_vec)

NextVecChain == VecChainSquare \/ VecChainMulPacked \/ VecChainMulEarlier
SpecVecChain == InitVecChain /\ [][NextVecChain]_vars

\* C15: in a chain of vector multiplications from packed values every lane
\* of every limb of every result is below 2^44, so the operands of the
\* multiply-adds fit in 52 bits, and no lane addition or left shift of a
\* multiplication wraps around 2^64.
ChainedLimbsBelow2To44 ==
    pc = "vec_chain" =>
        /\ ok
        /\ \A i \in 1..3 : \A k \in Lanes :
               /\ BLt(z_vec[i][k], Pow2(44))
               /\ BLt(y_vec[i][k], Pow2(44))
               /\ Fits(z_vec[i][k], 52) /\ Fits(y_vec[i][k], 52)
\* C15: a product with a limb of 2^43 or more has been multiplied again.
ChainedLimbsBelow2To44Witness ==
    /\ pc = "vec_chain"
    /\ n >= 2
    /\ \E i \in 1..3 : \E k \in Lanes : ~BLt(y_vec[i][k], Pow2(43))

(***************************************************************************)
(* src/src/vector/prime_field.rs, impl Into: the vectors that are          *)
(* unpacked.  Packed vectors, the products a * c and b * d, the sum        *)
(* x_vec + (-x_vec), the differences b + (-a) and c + (-d) of packed       *)
(* vectors, and both components of a product of ExtF127x4.                 *)
(***************************************************************************)
\* (b + (-a), c + (-d)) of the packed components
VecSubtract ==
    /\ pc = "ext_vec_ac"
    /\ \E na \in { F127x4_neg(x_vec[1]) }, nd \in { F127x4_neg(y_vec[2]) } :
           \E ba \in { F127x4_add(x_vec[2], na.v) },
              cd \in { F127x4_add(y_vec[1], nd.v) } :
               /\ z_vec' = << ba.v, cd.v >>
               /\ ok' = (ok /\ na.ok /\ nd.ok /\ ba.ok /\ cd.ok)
    /\ pc' = "vec_diff"
    /\ UNCHANGED << x, y, z, n, u, extVars, xs, ys, zs, x_vec, y_vec >>

\* the differences, unpacked lane by lane
UnpackDifference ==
    /\ pc = "vec_diff"
    /\ \E res \in { ExtF127x4_into(z_vec) } :
           /\ zs' = res.v
           /\ ok' = (ok /\ res.ok)
    /\ pc' = "diff_unpacked"
    /\ UNCHANGED << x, y, z, n, u, extVars, xs, ys, x_vec, y_vec, z_vec >>

InitUnpack == InitVecNeg \/ InitExtVec
NextUnpack == NextVecNeg \/ NextExtVec \/ VecSubtract \/ UnpackDifference
SpecUnpack == InitUnpack /\ [][NextUnpack]_vars

\* C16: for a packed vector, a product of packed vectors, a sum of a vector
\* and a negation, and both components of a product of packed ExtF127x4, the
\* integer reassembled in each lane after the reduction pass fits in 128 bits
\* and is below 2p, the precondition of F127::from.
UnpackRespectsFromPrecondition ==
    /\ pc = "vec_neg" => F127x4_into(x_vec).ok
    /\ pc = "ext_vec_ac" =>
           ExtF127x4_into(x_vec).ok /\ ExtF127x4_into(y_vec).ok
    /\ pc = "ext_vec_bd" => F127x4_into(ac).ok
    /\ pc = "ext_vec_result" => F127x4_into(ac).ok /\ F127x4_into(bd).ok
    /\ pc = "vec_sum" => F127x4_into(z_vec).ok
    /\ pc \in { "vec_diff", "ext_vec_done" } => ExtF127x4_into(z_vec).ok
    /\ pc \in { "sum_unpacked", "diff_unpacked", "ext_unpacked" } => ok
\* C16: a component of a product of ExtF127x4 whose lane stands, before the
\* reduction pass, for an integer of 2p or more, is unpacked.
UnpackRespectsFromPreconditionWitness ==
    /\ pc = "ext_unpacked"
    /\ ok
    /\ \E k \in Lanes : ~BLt(LimbValue(z_vec[2], k), TwoP)

Init == InitFrom
Next == NextFrom
Spec == SpecFrom
=============================================================================
